---- MODULE Spec2Model ----
(***************************************************************************)
(* The CPU core of the gamebro Game Boy emulator (src/libgbc/cpu.cpp):     *)
(* the fetch/decode/execute step, the delayed IME toggle, the priority     *)
(* ordered interrupt dispatch, the HALT state and the debug break harness. *)
(* The memory bus, the I/O register file and the instruction handlers are  *)
(* collaborators of the CPU; they are modelled from the written            *)
(* specification of their interfaces.                                      *)
(***************************************************************************)
EXTENDS Integers, Sequences, FiniteSets, TLC

(* ------------------------------------------------------------------ *)
(* Bounds of the model                                                  *)
(* ------------------------------------------------------------------ *)

\* simulate() is only stepped while cycles_total is below this bound
MaxCycles == 16

(* ------------------------------------------------------------------ *)
(* Fixed-width arithmetic                                               *)
(* ------------------------------------------------------------------ *)

Byte == 0 .. 255

Wrap16(n) == n % 65536

RECURSIVE BitAnd(_, _)
\* the C++ operator & on unsigned operands
BitAnd(a, b) ==
  IF a = 0 \/ b = 0 THEN 0
  ELSE (a % 2) * (b % 2) + 2 * BitAnd(a \div 2, b \div 2)

\* a & ~mask
BitClear(a, mask) == a - BitAnd(a, mask)

(* ------------------------------------------------------------------ *)
(* CPU::decode, cpu.cpp 147-198                                         *)
(* ------------------------------------------------------------------ *)

decode(opcode) ==
  IF opcode = 0 THEN "instr_NOP"
  ELSE IF opcode = \h08 THEN "instr_LD_N_SP"
  ELSE IF BitAnd(opcode, \hc0) = \h40
    THEN (IF opcode = \h76 THEN "instr_HALT" ELSE "instr_LD_D_D")
  ELSE IF BitAnd(opcode, \hcf) = \h01 THEN "instr_LD_R_N"
  ELSE IF BitAnd(opcode, \he7) = \h02 THEN "instr_LD_R_A_R"
  ELSE IF BitAnd(opcode, \hcf) = \h09 THEN "instr_ADD_HL_R"
  ELSE IF BitAnd(opcode, \hc7) = \h03 THEN "instr_INC_DEC_R"
  ELSE IF BitAnd(opcode, \hc6) = \h04 THEN "instr_INC_DEC_D"
  ELSE IF BitAnd(opcode, \he7) = \h07 THEN "instr_RLC_RRC"
  ELSE IF opcode = \h10 THEN "instr_STOP"
  ELSE IF opcode = \h18 THEN "instr_JR_N"
  ELSE IF BitAnd(opcode, \he7) = \h20 THEN "instr_JR_N"
  ELSE IF BitAnd(opcode, \hc7) = \h06 THEN "instr_LD_D_N"
  ELSE IF BitAnd(opcode, \he7) = \h22 THEN "instr_LDID_HL_A"
  ELSE IF opcode = \h27 THEN "instr_DAA"
  ELSE IF opcode = \h2f THEN "instr_CPL"
  ELSE IF BitAnd(opcode, \hf7) = \h37 THEN "instr_SCF_CCF"
  ELSE IF BitAnd(opcode, \hc7) = \hc6 THEN "instr_ALU_A_N_D"
  ELSE IF BitAnd(opcode, \hc0) = \h80 THEN "instr_ALU_A_N_D"
  ELSE IF BitAnd(opcode, \hcb) = \hc1 THEN "instr_PUSH_POP"
  ELSE IF BitAnd(opcode, \he7) = \hc0 THEN "instr_RET"
  ELSE IF BitAnd(opcode, \hef) = \hc9 THEN "instr_RET"
  ELSE IF BitAnd(opcode, \hc7) = \hc7 THEN "instr_RST"
  ELSE IF BitAnd(opcode, \hff) = \hc3 THEN "instr_JP"
  ELSE IF BitAnd(opcode, \he7) = \hc2 THEN "instr_JP"
  ELSE IF BitAnd(opcode, \hff) = \hc4 THEN "instr_CALL"
  ELSE IF BitAnd(opcode, \hcd) = \hcd THEN "instr_CALL"
  ELSE IF opcode = \he8 THEN "instr_ADD_SP_N"
  ELSE IF BitAnd(opcode, \hef) = \hea THEN "instr_LD_N_A_N"
  ELSE IF BitAnd(opcode, \hef) = \he0 THEN "instr_LD_xxx_A"
  ELSE IF BitAnd(opcode, \hef) = \he2 THEN "instr_LD_xxx_A"
  ELSE IF BitAnd(opcode, \hef) = \hea THEN "instr_LD_xxx_A"
  ELSE IF opcode = \hf8 THEN "instr_LD_HL_SP"
  ELSE IF BitAnd(opcode, \hef) = \he9 THEN "instr_LD_JP_HL"
  ELSE IF BitAnd(opcode, \hf7) = \hf3 THEN "instr_DI_EI"
  ELSE IF opcode = \hcb THEN "instr_CB_EXT"
  ELSE IF opcode = \hdb THEN "instr_UNUSED_OPS"
  ELSE IF opcode = \heb THEN "instr_UNUSED_OPS"
  ELSE IF opcode = \hec THEN "instr_UNUSED_OPS"
  ELSE IF opcode = \he4 THEN "instr_UNUSED_OPS"
  ELSE IF opcode = \hfc THEN "instr_UNUSED_OPS"
  ELSE IF opcode = \hf4 THEN "instr_UNUSED_OPS"
  ELSE "instr_MISSING"

(* ------------------------------------------------------------------ *)
(* The memory bus: a flat 64 KiB store, zero where never written.       *)
(* The store is kept as the function of its non-zero cells.             *)
(* ------------------------------------------------------------------ *)

read8(mem, addr) ==
  IF Wrap16(addr) \in DOMAIN mem THEN mem[Wrap16(addr)] ELSE 0

read16(mem, addr) == read8(mem, addr) + 256 * read8(mem, addr + 1)

write8(mem, addr, value) ==
  LET a == Wrap16(addr)
      d == IF value = 0 THEN DOMAIN mem \ {a} ELSE DOMAIN mem \cup {a}
  IN [x \in d |-> IF x = a THEN value ELSE mem[x]]

write16(mem, addr, value) ==
  write8(write8(mem, addr, value % 256), addr + 1, value \div 256)

\* the addresses at which the bus signals a failure instead of answering
Unmapped == {\hfea0}

bus_fails(addr) == Wrap16(addr) \in Unmapped

(* ------------------------------------------------------------------ *)
(* The I/O unit's interrupt sources (mask in IF/IE, vector address)     *)
(* ------------------------------------------------------------------ *)

vblank   == [name |-> "vblank",   mask |-> \h01, fixed_address |-> \h40]
lcd_stat == [name |-> "lcd_stat", mask |-> \h02, fixed_address |-> \h48]
timer    == [name |-> "timer",    mask |-> \h04, fixed_address |-> \h50]
serial   == [name |-> "serial",   mask |-> \h08, fixed_address |-> \h58]
joypad   == [name |-> "joypad",   mask |-> \h10, fixed_address |-> \h60]

Interrupts == {vblank, lcd_stat, timer, serial, joypad}

\* IO::interrupt_mask(): IF & IE & 0x1F
interrupt_mask(s) == BitAnd(BitAnd(s.reg_if, s.reg_ie), \h1f)

(* ------------------------------------------------------------------ *)
(* The record of the step in progress (an observer of simulate(), not   *)
(* state of the program): what the step started from and what it did.   *)
(* ------------------------------------------------------------------ *)

\* the part of the CPU state an operation is applied to
Snap(s) ==
  [registers |-> s.registers, m_cycles_total |-> s.m_cycles_total,
   m_cur_opcode |-> s.m_cur_opcode, m_running |-> s.m_running,
   m_asleep |-> s.m_asleep, m_haltbug |-> s.m_haltbug,
   m_intr_master_enable |-> s.m_intr_master_enable,
   m_intr_pending |-> s.m_intr_pending, memory |-> s.memory,
   reg_if |-> s.reg_if]

NoStep ==
  [call |-> "none", arg |-> 0, ret |-> 0, snap |-> << >>,
   stepped |-> FALSE, fetched |-> FALSE, opcode |-> 0, group |-> "none",
   console |-> 0, quit |-> FALSE, reset |-> FALSE,
   busfail |-> 0, notice |-> FALSE, thrown |-> FALSE, failed |-> "none",
   trace |-> << >>, dpc |-> 0, hpc |-> 0, atpc |-> 0, decoded |-> 0, debugint |-> 0,
   cmds |-> << >>, left |-> << >>,
   brk |-> [now |-> FALSE, cnt |-> 0, steps |-> 0, due |-> FALSE, left |-> 0,
            n |-> 0, count |-> 0, clean |-> TRUE],
   broke |-> FALSE, at_bp |-> FALSE, hit |-> FALSE,
   bp |-> [break_on_steps |-> 0, verbose_instr |-> FALSE], seen |-> 0,
   arm |-> [n |-> 0, count |-> 0, clean |-> TRUE],
   check |-> [ime |-> FALSE, imask |-> 0],
   serviced |-> << >>, defensive |-> FALSE,
   pre |-> [ime |-> FALSE, pending |-> 0, asleep |-> FALSE, imask |-> 0,
            pc |-> 0, sp |-> 0, cycles |-> 0, haltbug |-> 0, opcode |-> 0,
            registers |-> << >>],
   retire |-> [pc |-> 0, sp |-> 0, ime |-> FALSE, pending |-> 0,
               break |-> FALSE]]

\* what the step after keeps of a step
Brief(l) ==
  [stepped |-> l.stepped, opcode |-> l.opcode, group |-> l.group,
   ime |-> l.pre.ime, imask |-> l.pre.imask,
   dispatched |-> l.serviced # << >>]

BeginStep(s) ==
  [NoStep EXCEPT
     !.stepped = TRUE,
     !.arm = s.last.arm,
     !.pre = [ime |-> s.m_intr_master_enable, pending |-> s.m_intr_pending,
              asleep |-> s.m_asleep, imask |-> interrupt_mask(s),
              pc |-> s.registers.pc, sp |-> s.registers.sp,
              cycles |-> s.m_cycles_total, haltbug |-> s.m_haltbug,
              opcode |-> s.m_cur_opcode, registers |-> s.registers]]

(* ------------------------------------------------------------------ *)
(* Small members of CPU                                                 *)
(* ------------------------------------------------------------------ *)

is_halting(s) == s.m_asleep

is_running(s) == s.m_running

ime(s) == s.m_intr_master_enable

break_now(s) == [s EXCEPT !.m_break = TRUE]

\* CPU::reset, cpu.cpp 15-25
reset(s) ==
  [s EXCEPT !.registers = [af |-> \h01b0, bc |-> \h0013, de |-> \h00d8,
                           hl |-> \h014d, sp |-> \hfffe, pc |-> \h0],
            !.m_cycles_total = 0]

\* CPU::readop8, cpu.cpp 138-141
readop8(s, dx) == read8(s.memory, s.registers.pc + dx)

\* incr_cycles with = written for += (a faulty variant)
incr_cycles_assign(s, count) ==
  IF count < 0 THEN [s EXCEPT !.aborted = TRUE, !.last.failed = "incr_cycles"]
  ELSE [s EXCEPT !.m_cycles_total = count]

\* CPU::incr_cycles, cpu.cpp 207-211: assert(count >= 0)
incr_cycles(s, count) ==
  IF count < 0 THEN [s EXCEPT !.aborted = TRUE, !.last.failed = "incr_cycles"]
  ELSE [s EXCEPT !.m_cycles_total = @ + count]

\* CPU::stop, cpu.cpp 213-216
stop(s) == [s EXCEPT !.m_running = FALSE]

\* CPU::wait, cpu.cpp 218-222
wait(s) == [s EXCEPT !.m_asleep = TRUE, !.m_haltbug = 2]

\* cpu.cpp 229: the T-states push_and_jump returns
push_and_jump_ret == 8

\* push_and_jump storing PC before SP is lowered (a faulty variant)
push_and_jump_postdec(s, address) ==
  LET sp == Wrap16(s.registers.sp - 2 + 65536)
  IN [s EXCEPT !.registers.sp = sp,
               !.memory = write16(s.memory, s.registers.sp, s.registers.pc),
               !.registers.pc = address]

\* CPU::push_and_jump, cpu.cpp 224-230 (it returns push_and_jump_ret)
push_and_jump(s, address) ==
  LET sp == Wrap16(s.registers.sp - 2 + 65536)
  IN [s EXCEPT !.registers.sp = sp,
               !.memory = write16(s.memory, sp, s.registers.pc),
               !.registers.pc = address]

\* enable_interrupts taking effect at the end of the EI step (a faulty variant)
enable_interrupts_now(s) == [s EXCEPT !.m_intr_pending = 1]

\* CPU::enable_interrupts, cpu.cpp 97-99
enable_interrupts(s) == [s EXCEPT !.m_intr_pending = 2]

\* disable_interrupts taking effect at the end of the DI step (a faulty variant)
disable_interrupts_now(s) == [s EXCEPT !.m_intr_pending = -1]

\* CPU::disable_interrupts, cpu.cpp 100-102
disable_interrupts(s) == [s EXCEPT !.m_intr_pending = -2]

\* CPU::break_on_steps, cpu.cpp 433-438: assert(steps >= 0)
break_on_steps(s, steps) ==
  IF steps < 0
    THEN [s EXCEPT !.aborted = TRUE, !.last.failed = "break_on_steps"]
  ELSE [s EXCEPT !.m_break_steps_cnt = steps, !.m_break_steps = steps,
                 !.last.arm = [n |-> steps, count |-> 0, clean |-> TRUE]]

\* break_time testing < 0 where the code tests <= 0 (a faulty variant)
break_time_late(s) ==
  IF s.m_break THEN [ret |-> TRUE, s |-> s]
  ELSE IF s.m_break_steps_cnt # 0
    THEN (IF s.m_break_steps - 1 < 0
            THEN [ret |-> TRUE,
                  s |-> [s EXCEPT !.m_break_steps = s.m_break_steps_cnt]]
            ELSE [ret |-> FALSE,
                  s |-> [s EXCEPT !.m_break_steps = @ - 1]])
  ELSE [ret |-> FALSE, s |-> s]

\* CPU::break_time, cpu.cpp 420-431: the answer and the counter it leaves
break_time(s) ==
  IF s.m_break THEN [ret |-> TRUE, s |-> s]
  ELSE IF s.m_break_steps_cnt # 0
    THEN (IF s.m_break_steps - 1 <= 0
            THEN [ret |-> TRUE,
                  s |-> [s EXCEPT !.m_break_steps = s.m_break_steps_cnt]]
            ELSE [ret |-> FALSE,
                  s |-> [s EXCEPT !.m_break_steps = @ - 1]])
  ELSE [ret |-> FALSE, s |-> s]

(* ------------------------------------------------------------------ *)
(* IO::interrupt: clears the source's IF bit, has the CPU push PC and   *)
(* jump to the vector, and accounts `cost` T-states for the dispatch.   *)
(* ------------------------------------------------------------------ *)

io_interrupt(s, intr, cost) ==
  LET s1 == [s EXCEPT !.reg_if = BitClear(s.reg_if, intr.mask),
                      !.last.serviced = Append(@, intr.name)]
      s2 == push_and_jump(s1, intr.fixed_address)
  IN incr_cycles(s2, cost)

(* ------------------------------------------------------------------ *)
(* CPU::handle_interrupts, cpu.cpp 104-136                              *)
(* ------------------------------------------------------------------ *)

\* the countdown flipping ime at zero instead of setting it (a faulty variant)
ime_countdown_toggle(s) ==
  IF s.m_intr_pending > 0
    THEN [s EXCEPT !.m_intr_pending = @ - 1,
                   !.m_intr_master_enable =
                      IF s.m_intr_pending - 1 = 0 THEN ~@ ELSE @]
  ELSE IF s.m_intr_pending < 0
    THEN [s EXCEPT !.m_intr_pending = @ + 1,
                   !.m_intr_master_enable =
                      IF s.m_intr_pending + 1 = 0 THEN ~@ ELSE @]
  ELSE s

\* cpu.cpp 106-114: the delayed IME toggle
ime_countdown(s) ==
  IF s.m_intr_pending > 0
    THEN [s EXCEPT !.m_intr_pending = @ - 1,
                   !.m_intr_master_enable =
                      IF s.m_intr_pending - 1 = 0 THEN TRUE ELSE @]
  ELSE IF s.m_intr_pending < 0
    THEN [s EXCEPT !.m_intr_pending = @ + 1,
                   !.m_intr_master_enable =
                      IF s.m_intr_pending + 1 = 0 THEN FALSE ELSE @]
  ELSE s

\* the priority chain tested from the joypad end (a faulty variant)
dispatch_reversed(s, imask, cost) ==
  IF BitAnd(imask, \h10) # 0 THEN io_interrupt(s, joypad, cost)
  ELSE IF BitAnd(imask, \h08) # 0 THEN io_interrupt(s, serial, cost)
  ELSE IF BitAnd(imask, \h04) # 0 THEN io_interrupt(s, timer, cost)
  ELSE IF BitAnd(imask, \h02) # 0 THEN io_interrupt(s, lcd_stat, cost)
  ELSE IF BitAnd(imask, \h01) # 0 THEN io_interrupt(s, vblank, cost)
  ELSE [break_now(s) EXCEPT !.last.defensive = TRUE]

\* cpu.cpp 125-130: the priority chain
dispatch(s, imask, cost) ==
  IF BitAnd(imask, \h01) # 0 THEN io_interrupt(s, vblank, cost)
  ELSE IF BitAnd(imask, \h02) # 0 THEN io_interrupt(s, lcd_stat, cost)
  ELSE IF BitAnd(imask, \h04) # 0 THEN io_interrupt(s, timer, cost)
  ELSE IF BitAnd(imask, \h08) # 0 THEN io_interrupt(s, serial, cost)
  ELSE IF BitAnd(imask, \h10) # 0 THEN io_interrupt(s, joypad, cost)
  ELSE [break_now(s) EXCEPT !.last.defensive = TRUE]

\* handle_interrupts leaving the countdown running across a dispatch, without
\* cpu.cpp 122 (a faulty variant)
handle_interrupts_keep(s, cost) ==
  LET s0 == ime_countdown([s EXCEPT !.last.trace = Append(@, "interrupts")])
      imask == interrupt_mask(s0)
      s1 == [s0 EXCEPT !.last.check = [ime |-> ime(s0), imask |-> imask]]
      s2 == IF ime(s1) /\ imask # 0
              THEN dispatch([s1 EXCEPT !.m_asleep = FALSE,
                                       !.m_intr_master_enable = FALSE],
                            imask, cost)
              ELSE s1
  IN IF s2.m_asleep = FALSE /\ s2.m_haltbug # 0
       THEN [s2 EXCEPT !.m_haltbug = @ - 1]
       ELSE s2

\* handle_interrupts without the wake-up of cpu.cpp 119 (a faulty variant)
handle_interrupts_nowake(s, cost) ==
  LET s0 == ime_countdown([s EXCEPT !.last.trace = Append(@, "interrupts")])
      imask == interrupt_mask(s0)
      s1 == [s0 EXCEPT !.last.check = [ime |-> ime(s0), imask |-> imask]]
      s2 == IF ime(s1) /\ imask # 0
              THEN dispatch([s1 EXCEPT !.m_intr_master_enable = FALSE,
                                       !.m_intr_pending = 0],
                            imask, cost)
              ELSE s1
  IN IF s2.m_asleep = FALSE /\ s2.m_haltbug # 0
       THEN [s2 EXCEPT !.m_haltbug = @ - 1]
       ELSE s2

handle_interrupts(s, cost) ==
  LET s0 == ime_countdown([s EXCEPT !.last.trace = Append(@, "interrupts")])
      imask == interrupt_mask(s0)
      s1 == [s0 EXCEPT !.last.check = [ime |-> ime(s0), imask |-> imask]]
      s2 == IF ime(s1) /\ imask # 0
              THEN dispatch([s1 EXCEPT !.m_asleep = FALSE,
                                       !.m_intr_master_enable = FALSE,
                                       !.m_intr_pending = 0],
                            imask, cost)
              ELSE s1
  IN IF s2.m_asleep = FALSE /\ s2.m_haltbug # 0
       THEN [s2 EXCEPT !.m_haltbug = @ - 1]
       ELSE s2

(* ------------------------------------------------------------------ *)
(* The instruction handlers of the groups the model runs (the published *)
(* LR35902 behaviour): the state they leave and the T-states they       *)
(* return. The MISSING handler aborts execution.                        *)
(* ------------------------------------------------------------------ *)

OP_NOP    == \h00
OP_HALT   == \h76
OP_DI     == \hf3
OP_EI     == \hfb
OP_UNUSED == \hdb
OP_D3     == \hd3

\* the opcodes whose handlers are modelled
ModelOps == {OP_NOP, OP_HALT, OP_DI, OP_EI, OP_UNUSED, OP_D3}

handler(s, group, opcode) ==
  CASE group = "instr_NOP" -> [s |-> s, ret |-> 4]
    [] group = "instr_HALT" -> [s |-> wait(s), ret |-> 4]
    [] group = "instr_DI_EI" ->
         [s |-> IF BitAnd(opcode, \h08) # 0 THEN enable_interrupts(s)
                                            ELSE disable_interrupts(s),
          ret |-> 4]
    [] group = "instr_UNUSED_OPS" -> [s |-> s, ret |-> 4]
    [] group = "instr_MISSING" -> [s |-> [s EXCEPT !.aborted = TRUE], ret |-> 0]

(* ------------------------------------------------------------------ *)
(* The debug console: execute_commands, cpu.cpp 277-395                 *)
(* A command is [cmd, a, b]: the keyword and its parsed parameters.     *)
(* ------------------------------------------------------------------ *)

\* a line typed at the prompt, split at blanks (cpu.cpp 288-289): the keyword
\* and the parameters that follow it, each as the number it reads as; the
\* keyword "empty" stands for the line with nothing on it (cpu.cpp 287) and
\* the keyword "" for a line that begins with a blank (cpu.cpp 297)
Cmd(c, params) == [cmd |-> c, params |-> params, nan |-> FALSE]

\* a line whose decimal parameter (the count of step and read, the value of
\* write) does not read as an int: std::stoi throws on it
NanCmd(c, params) == [cmd |-> c, params |-> params, nan |-> TRUE]

\* Machine::reset as far as the CPU is concerned
machine_reset(s) == reset(s)

\* the breakpoint a default pausepoint installs: period 1, verbose on
DefaultBreakpoint == [break_on_steps |-> 1, verbose_instr |-> TRUE]

\* CPU::default_pausepoint: a breakpoint whose callback opens the console
default_pausepoint(s, addr) ==
  [s EXCEPT !.m_breakpoints =
     [a \in DOMAIN @ \cup {addr} |-> IF a = addr THEN DefaultBreakpoint
                                                ELSE @[a]]]

\* GPU::render_and_vblank: the frame is drawn and VBlank is requested
render_and_vblank(s) ==
  [s EXCEPT !.reg_if = @ + vblank.mask - BitAnd(@, vblank.mask)]

\* a bus failure leaves the function it was raised in: nothing in
\* execute_commands, execute or simulate catches it
bus_throw(s) ==
  [s EXCEPT !.aborted = TRUE, !.last.thrown = TRUE, !.last.busfail = @ + 1]

\* cpu.cpp 350-360: the read command reads `bytes` cells from `hex` on
read_command(s, hex, bytes) ==
  IF \E i \in 0 .. bytes - 1 : bus_fails(hex + i) THEN bus_throw(s) ELSE s

\* cpu.cpp 369-373: the write command pokes one byte
write_command(s, hex, value) ==
  IF bus_fails(hex) THEN bus_throw(s)
  ELSE [s EXCEPT !.memory = write8(s.memory, hex, BitAnd(value, \hff))]

\* cpu.cpp 303, 352, 370: std::stoi throws std::invalid_argument or
\* std::out_of_range, which nothing in execute_commands, print_and_pause,
\* execute or simulate catches
stoi_throw(s) == [s EXCEPT !.aborted = TRUE, !.last.thrown = TRUE]

\* CPU::gettime: the cycle counter
gettime(s) == s.m_cycles_total

\* cpu.cpp 380-383: the debug command calls the debug interrupt's callback,
\* which is the host's and leaves the CPU alone, and stamps the interrupt
debug_command(s) ==
  [s EXCEPT !.debugint_last_time = gettime(s), !.last.debugint = @ + 1]

\* execute_commands with run leaving the verbose flag alone (a faulty variant)
execute_commands_run(s, c) ==
  CASE c.cmd = "empty" -> [stay |-> FALSE, s |-> s]
    [] c.cmd \in {"c", "continue"} ->
         [stay |-> FALSE, s |-> break_on_steps(s, 0)]
    [] c.cmd = "" -> [stay |-> FALSE, s |-> s]
    [] c.cmd \in {"s", "step"} ->
         LET s1 == [s EXCEPT !.verbose_instructions = TRUE]
         IN [stay |-> FALSE,
             s |-> IF Len(c.params) > 0 /\ c.nan THEN stoi_throw(s1)
                   ELSE break_on_steps(s1, IF Len(c.params) > 0
                                             THEN c.params[1] ELSE 1)]
    [] c.cmd \in {"b", "break"} ->
         [stay |-> TRUE,
          s |-> IF Len(c.params) < 1 THEN s
                ELSE default_pausepoint(s, BitAnd(c.params[1], \hffff))]
    [] c.cmd = "clear" -> [stay |-> TRUE, s |-> [s EXCEPT !.m_breakpoints = << >>]]
    [] c.cmd \in {"v", "verbose"} ->
         [stay |-> TRUE, s |-> [s EXCEPT !.verbose_instructions = ~@]]
    [] c.cmd \in {"r", "run"} ->
         [stay |-> FALSE, s |-> break_on_steps(s, 0)]
    [] c.cmd \in {"q", "quit", "exit"} ->
         [stay |-> FALSE, s |-> [stop(s) EXCEPT !.last.quit = TRUE]]
    [] c.cmd = "reset" ->
         [stay |-> FALSE,
          s |-> [break_now(machine_reset(s)) EXCEPT !.last.reset = TRUE]]
    [] c.cmd \in {"ld", "read"} ->
         [stay |-> TRUE,
          s |-> IF Len(c.params) < 1 THEN s
                ELSE IF Len(c.params) > 1 /\ c.nan THEN stoi_throw(s)
                ELSE read_command(s, c.params[1],
                                  IF Len(c.params) > 1 THEN c.params[2] ELSE 1)]
    [] c.cmd = "write" ->
         [stay |-> TRUE,
          s |-> IF Len(c.params) < 2 THEN s
                ELSE IF c.nan THEN stoi_throw(s)
                ELSE write_command(s, c.params[1], c.params[2])]
    [] c.cmd = "vblank" -> [stay |-> TRUE, s |-> render_and_vblank(s)]
    [] c.cmd = "debug" -> [stay |-> TRUE, s |-> debug_command(s)]
    [] c.cmd \in {"help", "?"} -> [stay |-> TRUE, s |-> s]
    [] OTHER -> [stay |-> TRUE, s |-> s]

\* for the observer: a command has returned, with its answer
Answered(s, c, stay) ==
  [s EXCEPT !.last.cmds = Append(@, [cmd |-> c.cmd, params |-> c.params,
                                     stay |-> stay])]

\* for the observer: the state in which the command loop is left
Leave(s) ==
  [s EXCEPT !.last.left =
     [period |-> s.m_break_steps_cnt, remaining |-> s.m_break_steps,
      verbose |-> s.verbose_instructions, running |-> s.m_running,
      break |-> s.m_break, registers |-> s.registers,
      cycles |-> s.m_cycles_total]]

\* execute_commands, cpu.cpp 277-395: one line; whether the console stays at
\* the prompt, and the state
execute_commands(s, c) ==
  CASE c.cmd = "empty" -> [stay |-> FALSE, s |-> s]
    [] c.cmd \in {"c", "continue"} ->
         [stay |-> FALSE, s |-> break_on_steps(s, 0)]
    [] c.cmd = "" -> [stay |-> FALSE, s |-> s]
    [] c.cmd \in {"s", "step"} ->
         LET s1 == [s EXCEPT !.verbose_instructions = TRUE]
         IN [stay |-> FALSE,
             s |-> IF Len(c.params) > 0 /\ c.nan THEN stoi_throw(s1)
                   ELSE break_on_steps(s1, IF Len(c.params) > 0
                                             THEN c.params[1] ELSE 1)]
    [] c.cmd \in {"b", "break"} ->
         [stay |-> TRUE,
          s |-> IF Len(c.params) < 1 THEN s
                ELSE default_pausepoint(s, BitAnd(c.params[1], \hffff))]
    [] c.cmd = "clear" -> [stay |-> TRUE, s |-> [s EXCEPT !.m_breakpoints = << >>]]
    [] c.cmd \in {"v", "verbose"} ->
         [stay |-> TRUE, s |-> [s EXCEPT !.verbose_instructions = ~@]]
    [] c.cmd \in {"r", "run"} ->
         [stay |-> FALSE,
          s |-> break_on_steps([s EXCEPT !.verbose_instructions = FALSE], 0)]
    [] c.cmd \in {"q", "quit", "exit"} ->
         [stay |-> FALSE, s |-> [stop(s) EXCEPT !.last.quit = TRUE]]
    [] c.cmd = "reset" ->
         [stay |-> FALSE,
          s |-> [break_now(machine_reset(s)) EXCEPT !.last.reset = TRUE]]
    [] c.cmd \in {"ld", "read"} ->
         [stay |-> TRUE,
          s |-> IF Len(c.params) < 1 THEN s
                ELSE IF Len(c.params) > 1 /\ c.nan THEN stoi_throw(s)
                ELSE read_command(s, c.params[1],
                                  IF Len(c.params) > 1 THEN c.params[2] ELSE 1)]
    [] c.cmd = "write" ->
         [stay |-> TRUE,
          s |-> IF Len(c.params) < 2 THEN s
                ELSE IF c.nan THEN stoi_throw(s)
                ELSE write_command(s, c.params[1], c.params[2])]
    [] c.cmd = "vblank" -> [stay |-> TRUE, s |-> render_and_vblank(s)]
    [] c.cmd = "debug" -> [stay |-> TRUE, s |-> debug_command(s)]
    [] c.cmd \in {"help", "?"} -> [stay |-> TRUE, s |-> s]
    [] OTHER -> [stay |-> TRUE, s |-> s]

\* cpu.cpp 417: one round of while (execute_commands(cpu)); the round waits
\* in getchar() for the next line of standard input, and the end of input
\* reads as an empty line
console_line(s) ==
  LET c == IF s.stdin = << >> THEN Cmd("empty", << >>) ELSE Head(s.stdin)
      r == execute_commands([s EXCEPT !.stdin = IF @ = << >> THEN @
                                                ELSE Tail(@)], c)
  IN IF r.s.aborted THEN [stay |-> FALSE, s |-> r.s]
     ELSE [stay |-> r.stay, s |-> Answered(r.s, c, r.stay)]

\* cpu.cpp 410-416: the (HL) and (SP) dump; a bus failure in it is caught
\* and answered with a notice
dump_hl_sp(s) ==
  IF bus_fails(s.registers.hl) \/ bus_fails(s.registers.sp)
       \/ bus_fails(s.registers.sp + 1)
    THEN [s EXCEPT !.last.notice = TRUE, !.last.busfail = @ + 1]
    ELSE s

\* CPU::print_and_pause, cpu.cpp 397-417, up to the first wait for a line:
\* `caller` is the function that goes on when the command loop ends
print_and_pause(s, opcode, caller) ==
  [dump_hl_sp([s EXCEPT !.last.console = @ + 1,
                        !.last.trace = Append(@, "console")])
     EXCEPT !.waiting = caller]

(* ------------------------------------------------------------------ *)
(* CPU::execute, cpu.cpp 47-94: the state and the cycles returned       *)
(* ------------------------------------------------------------------ *)

\* the handler run before PC is advanced (a faulty variant)
decode_and_run_late(s, opcode) ==
  LET instr == decode(opcode)
      s1 == [s EXCEPT !.last.group = instr, !.last.dpc = s.registers.pc,
                      !.last.decoded = opcode,
                      !.last.atpc = read8(s.memory, s.registers.pc),
                      !.last.hpc = s.registers.pc,
                      !.last.trace = @ \o << "decode", "handler" >>]
      r == handler(s1, instr, opcode)
  IN [s |-> [r.s EXCEPT !.registers.pc = Wrap16(@ + 1),
                        !.last.trace = Append(@, "pc")],
      ret |-> r.ret]

\* cpu.cpp 64-79: decode, advance PC, run the handler
decode_and_run(s, opcode) ==
  LET instr == decode(opcode)
      s1 == [s EXCEPT !.last.group = instr, !.last.dpc = s.registers.pc,
                      !.last.decoded = opcode,
                      !.last.atpc = read8(s.memory, s.registers.pc),
                      !.last.trace = Append(@, "decode")]
      s2 == [s1 EXCEPT !.registers.pc = Wrap16(@ + 1),
                       !.last.trace = Append(@, "pc")]
      s3 == [s2 EXCEPT !.last.hpc = s2.registers.pc,
                       !.last.trace = Append(@, "handler")]
  IN handler(s3, instr, opcode)

\* what the step's break check saw and answered, for the observer
Checked(s, bt) ==
  LET arm == IF s.last.arm.n = 0 THEN s.last.arm
             ELSE [n |-> s.last.arm.n, count |-> s.last.arm.count + 1,
                   clean |-> s.last.arm.clean /\ ~s.m_break]
  IN [bt.s EXCEPT
        !.last.brk = [now |-> s.m_break, cnt |-> s.m_break_steps_cnt,
                      steps |-> s.m_break_steps, due |-> bt.ret,
                      left |-> bt.s.m_break_steps,
                      n |-> arm.n, count |-> arm.count, clean |-> arm.clean],
        !.last.at_bp = s.registers.pc \in DOMAIN s.m_breakpoints,
        !.last.trace = Append(@, "check"),
        !.last.arm = arm]

\* the callback of the breakpoint at PC: the default pausepoint's
bp_callback(s, opcode, caller) ==
  print_and_pause([s EXCEPT !.last.hit = TRUE,
                            !.last.bp = s.m_breakpoints[s.registers.pc],
                            !.last.seen = opcode],
                  opcode, caller)

\* cpu.cpp 49-63: the break check; where the console opens the call waits
\* there (waiting # "none") and execute_resumed goes on
execute(s, opcode) ==
  LET bt == break_time(s)
      s0 == Checked(s, bt)
  IN IF bt.ret
       THEN [s |-> print_and_pause([s0 EXCEPT !.m_break = FALSE,
                                              !.last.broke = TRUE],
                                   opcode, "execute"),
             ret |-> 0]
     ELSE IF DOMAIN s0.m_breakpoints # {}
               /\ s0.registers.pc \in DOMAIN s0.m_breakpoints
       THEN [s |-> bp_callback(s0, opcode, "callback"), ret |-> 0]
     ELSE decode_and_run(s0, opcode)

\* cpu.cpp 53-54, 63-79: execute after the command loop has ended; only the
\* break branch tests is_running
execute_resumed(s, opcode, caller) ==
  IF caller = "execute" /\ ~is_running(s) THEN [s |-> s, ret |-> 0]
  ELSE decode_and_run(s, opcode)

\* CPU::break_checks, cpu.cpp 440-459: the break check of execute on its
\* own, for callers outside the CPU; nothing is decoded or executed
break_checks(s) ==
  LET bt == break_time(s)
      s0 == Checked(s, bt)
  IN IF bt.ret
       THEN print_and_pause([s0 EXCEPT !.m_break = FALSE,
                                       !.last.broke = TRUE],
                            readop8(s0, 0), "break_checks")
     ELSE IF DOMAIN s0.m_breakpoints # {}
               /\ s0.registers.pc \in DOMAIN s0.m_breakpoints
       THEN bp_callback(s0, readop8(s0, 0), "break_checks")
     ELSE s0

\* CPU::write_hl, cpu.cpp 203-205
write_hl(s, value) ==
  [s EXCEPT !.memory = write8(s.memory, s.registers.hl, value)]

(* ------------------------------------------------------------------ *)
(* CPU::simulate, cpu.cpp 27-45                                         *)
(* ------------------------------------------------------------------ *)

Retire(s) ==
  [s EXCEPT !.last.retire =
     [pc |-> s.registers.pc, sp |-> s.registers.sp,
      ime |-> s.m_intr_master_enable, pending |-> s.m_intr_pending,
      break |-> s.m_break]]

\* simulate fetching and executing also while asleep (a faulty variant)
simulate_awake(s0, cost) ==
  LET s == [s0 EXCEPT !.last = BeginStep(s0)]
      op == readop8(s, 0)
      r == execute([s EXCEPT !.m_cur_opcode = op,
                             !.last.fetched = TRUE,
                             !.last.opcode = op], op)
  IN IF r.s.aborted \/ r.s.waiting # "none" THEN r.s
     ELSE handle_interrupts(Retire(incr_cycles(r.s, r.ret)), cost)

\* cpu.cpp 27-45; a step in which the console opens waits there
\* (waiting # "none") and simulate_resumed goes on
simulate(s0, cost) ==
  LET s == [s0 EXCEPT !.last = BeginStep(s0)]
  IN IF ~is_halting(s)
       THEN LET op == readop8(s, 0)
                r == execute([s EXCEPT !.m_cur_opcode = op,
                                       !.last.fetched = TRUE,
                                       !.last.opcode = op], op)
            IN IF r.s.aborted \/ r.s.waiting # "none" THEN r.s
               ELSE handle_interrupts(Retire(incr_cycles(r.s, r.ret)), cost)
       ELSE handle_interrupts(Retire(incr_cycles(s, 4)), cost)

\* cpu.cpp 34-44: simulate after the command loop has ended; the opcode is
\* the one execute was called with
simulate_resumed(s, caller, cost) ==
  LET r == execute_resumed(s, s.m_cur_opcode, caller)
  IN IF r.s.aborted THEN r.s
     ELSE handle_interrupts(Retire(incr_cycles(r.s, r.ret)), cost)

\* cpu.cpp 417-418: the command loop has ended and print_and_pause returns
\* to its caller: to execute and simulate, which go on with the step, or to
\* break_checks, which returns
console_returns(s, cost) ==
  LET s1 == [Leave(s) EXCEPT !.waiting = "none"]
  IN IF s.waiting = "break_checks" THEN s1
     ELSE simulate_resumed(s1, s.waiting, cost)

(* ------------------------------------------------------------------ *)
(* State                                                                *)
(* ------------------------------------------------------------------ *)

VARIABLES
  registers,             \* af, bc, de, hl, sp, pc
  m_cycles_total,
  m_cur_opcode,
  m_running,
  m_asleep,
  m_haltbug,
  m_intr_master_enable,
  m_intr_pending,
  m_break,
  m_break_steps_cnt,
  m_break_steps,
  m_breakpoints,
  verbose_instructions,  \* Machine::verbose_instructions
  debugint_last_time,    \* IO::debugint.last_time
  waiting,               \* "none", or the caller whose console waits for a line
  memory,                \* the bus, as the function of its non-zero cells
  reg_if,                \* IO register IF
  reg_ie,                \* IO register IE
  stdin,                 \* the lines of standard input not read yet
  aborted,               \* simulate() did not return: an assertion failed,
                         \* MISSING aborted, or an exception left it
  last,                  \* the record of the latest simulate() step
  prev                   \* the record of the step before it

vars ==
  << registers, m_cycles_total, m_cur_opcode, m_running, m_asleep, m_haltbug,
     m_intr_master_enable, m_intr_pending, m_break, m_break_steps_cnt,
     m_break_steps, m_breakpoints, verbose_instructions, debugint_last_time,
     waiting, memory, reg_if, reg_ie, stdin, aborted, last, prev >>

\* the state as the record the operators above work on
State ==
  [registers |-> registers, m_cycles_total |-> m_cycles_total,
   m_cur_opcode |-> m_cur_opcode, m_running |-> m_running,
   m_asleep |-> m_asleep, m_haltbug |-> m_haltbug,
   m_intr_master_enable |-> m_intr_master_enable,
   m_intr_pending |-> m_intr_pending, m_break |-> m_break,
   m_break_steps_cnt |-> m_break_steps_cnt, m_break_steps |-> m_break_steps,
   m_breakpoints |-> m_breakpoints,
   verbose_instructions |-> verbose_instructions,
   debugint_last_time |-> debugint_last_time, waiting |-> waiting,
   memory |-> memory,
   reg_if |-> reg_if, reg_ie |-> reg_ie, stdin |-> stdin, aborted |-> aborted,
   last |-> last]

Becomes(s) ==
  /\ registers' = s.registers
  /\ m_cycles_total' = s.m_cycles_total
  /\ m_cur_opcode' = s.m_cur_opcode
  /\ m_running' = s.m_running
  /\ m_asleep' = s.m_asleep
  /\ m_haltbug' = s.m_haltbug
  /\ m_intr_master_enable' = s.m_intr_master_enable
  /\ m_intr_pending' = s.m_intr_pending
  /\ m_break' = s.m_break
  /\ m_break_steps_cnt' = s.m_break_steps_cnt
  /\ m_break_steps' = s.m_break_steps
  /\ m_breakpoints' = s.m_breakpoints
  /\ verbose_instructions' = s.verbose_instructions
  /\ debugint_last_time' = s.debugint_last_time
  /\ waiting' = s.waiting
  /\ memory' = s.memory
  /\ reg_if' = s.reg_if
  /\ reg_ie' = s.reg_ie
  /\ stdin' = s.stdin
  /\ aborted' = s.aborted
  /\ last' = s.last

(* ------------------------------------------------------------------ *)
(* Inputs                                                               *)
(* ------------------------------------------------------------------ *)

\* the cartridge images the model runs, loaded from address 0
Programs ==
  { <<OP_EI, OP_NOP, OP_DI, OP_NOP>>,
    <<OP_EI, OP_NOP, OP_EI, OP_DI>>,
    <<OP_EI, OP_DI, OP_NOP>>,
    <<OP_EI, OP_EI, OP_HALT>>,
    <<OP_EI, OP_HALT>>,
    <<OP_DI, OP_NOP, OP_EI, OP_UNUSED>>,
    <<OP_HALT, OP_NOP>>,
    <<OP_NOP, OP_UNUSED, OP_D3>> }

\* the images that are run with somebody at the debug console
DebugPrograms ==
  { <<OP_EI, OP_NOP, OP_DI, OP_NOP>>,
    <<OP_EI, OP_HALT>> }

Load(prog) ==
  LET d == {a \in 0 .. Len(prog) - 1 : prog[a + 1] # 0}
  IN [a \in d |-> prog[a + 1]]

\* the values of IE the program has set up
IESet == {\h1f, \h15}

\* the T-states the I/O unit accounts for an accepted interrupt
IntrCost == {8, 20}

\* what is typed at the debug console over a run, line by line
Scripts ==
  { << >>,
    << Cmd("quit", << >>) >>,
    << Cmd("reset", << >>) >>,
    << Cmd("step", << 1 >>), Cmd("continue", << >>) >>,
    << Cmd("step", << 2 >>), Cmd("run", << >>) >>,
    << Cmd("step", << 1 >>), Cmd("quit", << >>) >>,
    << Cmd("vblank", << >>), Cmd("empty", << >>) >>,
    << Cmd("write", << 1, OP_EI >>), Cmd("verbose", << >>),
       Cmd("empty", << >>) >>,
    << Cmd("break", << 1 >>), Cmd("help", << >>), Cmd("read", << 0, 2 >>),
       Cmd("continue", << >>) >>,
    << Cmd("read", << \hfe9f, 2 >>), Cmd("continue", << >>) >>,
    << Cmd("write", << \hfea0, 1 >>), Cmd("continue", << >>) >>,
    << Cmd("step", << 1 >>) >>,
    << Cmd("step", << -1 >>) >>,
    << Cmd("break", << 2 >>), Cmd("clear", << >>), Cmd("debug", << >>),
       Cmd("unknown", << >>), Cmd("continue", << >>) >>,
    << Cmd("break", << >>), Cmd("write", << 1 >>), Cmd("read", << >>),
       Cmd("read", << 0 >>), Cmd("step", << >>) >>,
    << Cmd("v", << >>), Cmd("?", << >>), Cmd("ld", << 0 >>), Cmd("", << >>) >>,
    << NanCmd("step", << 0 >>) >>,
    << NanCmd("write", << 1, 0 >>), Cmd("continue", << >>) >> }

(* ------------------------------------------------------------------ *)
(* Init and the actions                                                 *)
(* ------------------------------------------------------------------ *)

Constructed ==
  reset([registers |-> [af |-> 0, bc |-> 0, de |-> 0, hl |-> 0, sp |-> 0, pc |-> 0],
         m_cycles_total |-> 0, m_cur_opcode |-> 0, m_running |-> TRUE,
         m_asleep |-> FALSE, m_haltbug |-> 0, m_intr_master_enable |-> FALSE,
         m_intr_pending |-> 0, m_break |-> FALSE, m_break_steps_cnt |-> 0,
         m_break_steps |-> 0, m_breakpoints |-> << >>,
         verbose_instructions |-> FALSE, debugint_last_time |-> 0, waiting |-> "none",
         memory |-> << >>, reg_if |-> 0,
         reg_ie |-> 0, stdin |-> << >>, aborted |-> FALSE, last |-> NoStep])

Init ==
  \E prog \in Programs, ie \in IESet, script \in Scripts :
    /\ script # << >> => prog \in DebugPrograms
    /\ registers = Constructed.registers
    /\ m_cycles_total = Constructed.m_cycles_total
    /\ m_cur_opcode = Constructed.m_cur_opcode
    /\ m_running = Constructed.m_running
    /\ m_asleep = Constructed.m_asleep
    /\ m_haltbug = Constructed.m_haltbug
    /\ m_intr_master_enable = Constructed.m_intr_master_enable
    /\ m_intr_pending = Constructed.m_intr_pending
    /\ m_break = Constructed.m_break
    /\ m_break_steps_cnt = Constructed.m_break_steps_cnt
    /\ m_break_steps = Constructed.m_break_steps
    /\ m_breakpoints = Constructed.m_breakpoints
    /\ verbose_instructions = Constructed.verbose_instructions
    /\ debugint_last_time = Constructed.debugint_last_time
    /\ waiting = Constructed.waiting
    /\ memory = Load(prog)
    /\ reg_if = 0
    /\ reg_ie = ie
    /\ stdin = script
    /\ aborted = FALSE
    /\ last = NoStep
    /\ prev = Brief(NoStep)

\* the machine loop runs one step; it stops stepping once the CPU was quit
Simulate ==
  /\ ~aborted
  /\ waiting = "none"
  /\ m_running
  /\ m_cycles_total < MaxCycles
  /\ \E cost \in IntrCost : Becomes(simulate(State, cost))
  /\ prev' = Brief(last)

\* a peripheral requests an interrupt: its bit of IF is set
RaiseInterrupt ==
  /\ ~aborted
  /\ waiting = "none"
  /\ m_running
  /\ m_cycles_total < MaxCycles
  /\ \E intr \in Interrupts :
       /\ BitAnd(reg_if, intr.mask) = 0
       /\ reg_if' = reg_if + intr.mask
  /\ UNCHANGED << registers, m_cycles_total, m_cur_opcode, m_running, m_asleep,
                  m_haltbug, m_intr_master_enable, m_intr_pending, m_break,
                  m_break_steps_cnt, m_break_steps, m_breakpoints,
                  verbose_instructions, debugint_last_time, waiting, memory, reg_ie,
                  stdin, aborted,
                  last, prev >>

\* the host arms an immediate break (CPU::break_now)
BreakNow ==
  /\ ~aborted
  /\ waiting = "none"
  /\ m_running
  /\ m_cycles_total < MaxCycles
  /\ ~m_break
  /\ Becomes(break_now(State))
  /\ UNCHANGED prev

\* a line arrives at the console that waits in getchar() (cpu.cpp 283): the
\* command runs; on a command that resumes, the caller goes on to its end;
\* an exception or a failed assertion leaves the console and the step.
\* The program has one thread, so nothing else runs while the console waits.
ConsoleLine ==
  /\ ~aborted
  /\ waiting # "none"
  /\ LET r == console_line(State)
     IN IF r.s.aborted THEN Becomes([r.s EXCEPT !.waiting = "none"])
        ELSE IF r.stay THEN Becomes(r.s)
        ELSE \E cost \in IntrCost : Becomes(console_returns(r.s, cost))
  /\ UNCHANGED prev

Next ==
  \/ Simulate
  \/ ConsoleLine
  \/ RaiseInterrupt
  \/ BreakNow

Spec == Init /\ [][Next]_vars

(* ------------------------------------------------------------------ *)
(* The decoder on its own: every opcode is decoded once                 *)
(* ------------------------------------------------------------------ *)

DecodeInit ==
  /\ registers = Constructed.registers
  /\ m_cycles_total = 0
  /\ m_cur_opcode \in Byte
  /\ m_running = TRUE
  /\ m_asleep = FALSE
  /\ m_haltbug = 0
  /\ m_intr_master_enable = FALSE
  /\ m_intr_pending = 0
  /\ m_break = FALSE
  /\ m_break_steps_cnt = 0
  /\ m_break_steps = 0
  /\ m_breakpoints = << >>
  /\ verbose_instructions = FALSE
  /\ debugint_last_time = 0
  /\ waiting = "none"
  /\ memory = << >>
  /\ reg_if = 0
  /\ reg_ie = 0
  /\ stdin = << >>
  /\ aborted = FALSE
  /\ last = NoStep
  /\ prev = Brief(NoStep)

Decode ==
  /\ last.group = "none"
  /\ last' = [last EXCEPT !.opcode = m_cur_opcode,
                          !.group = decode(m_cur_opcode)]
  /\ UNCHANGED << registers, m_cycles_total, m_cur_opcode, m_running, m_asleep,
                  m_haltbug, m_intr_master_enable, m_intr_pending, m_break,
                  m_break_steps_cnt, m_break_steps, m_breakpoints,
                  verbose_instructions, debugint_last_time, waiting, memory, reg_if,
                  reg_ie, stdin, aborted,
                  prev >>

DecodeSpec == DecodeInit /\ [][Decode]_vars

(* ------------------------------------------------------------------ *)
(* Single operations of the CPU's interface, each applied once to a CPU *)
(* state a run can have reached                                         *)
(* ------------------------------------------------------------------ *)

\* stack pointers, program counters and jump targets the operations are tried on
PushSPs == {\h0000, \h0001, \hfffe, \hc002}

PushPCs == {\h0000, \h0150, \hffff, \h1234}

PushVectors == {\h0040, \h0060, \h0000, \hffff}

\* asleep after HALT, awake, awake one step after a wake-up
SleepStates ==
  { [asleep |-> TRUE, haltbug |-> 2, opcode |-> OP_HALT],
    [asleep |-> FALSE, haltbug |-> 0, opcode |-> OP_NOP],
    [asleep |-> FALSE, haltbug |-> 1, opcode |-> OP_EI] }

\* the record of an operation applied to s
BeginCall(s, call, arg) ==
  [NoStep EXCEPT !.call = call, !.arg = arg, !.snap = Snap(s)]

\* the break state a call finds: nothing armed, break_now armed, the stepper
\* one or two checks before its break, a breakpoint at one of the PCs
BreakStates ==
  { [break |-> FALSE, cnt |-> 0, steps |-> 0, bps |-> << >>],
    [break |-> TRUE, cnt |-> 0, steps |-> 0, bps |-> << >>],
    [break |-> FALSE, cnt |-> 2, steps |-> 2, bps |-> << >>],
    [break |-> FALSE, cnt |-> 2, steps |-> 1, bps |-> << >>],
    [break |-> FALSE, cnt |-> 0, steps |-> 0,
     bps |-> [a \in {\h0150} |-> DefaultBreakpoint]] }

\* what is typed when the console opens in a single call
OpScripts ==
  { << Cmd("continue", << >>) >>,
    << Cmd("write", << 1, OP_EI >>), Cmd("step", << 3 >>) >>,
    << Cmd("quit", << >>) >>,
    << NanCmd("read", << 0, 0 >>) >> }

OpInit ==
  \E sp \in PushSPs, pc \in PushPCs, hl \in {\h014d, \hc000},
     sl \in SleepStates, run \in BOOLEAN, ie \in BOOLEAN,
     pend \in {-1, 0, 1}, cyc \in {0, 12},
     bs \in BreakStates, script \in OpScripts :
    /\ (bs.break \/ bs.cnt # 0 \/ pc \in DOMAIN bs.bps)
         \/ script = << Cmd("continue", << >>) >>
    /\ (bs.cnt # 0 \/ bs.bps # << >>) =>
         (sp = \hfffe /\ run /\ ~ie /\ pend = 0 /\ cyc = 0)
    /\ registers = [Constructed.registers EXCEPT !.sp = sp, !.pc = pc,
                                                 !.hl = hl]
    /\ m_cycles_total = cyc
    /\ m_cur_opcode = sl.opcode
    /\ m_running = run
    /\ m_asleep = sl.asleep
    /\ m_haltbug = sl.haltbug
    /\ m_intr_master_enable = ie
    /\ m_intr_pending = pend
    /\ m_break = bs.break
    /\ m_break_steps_cnt = bs.cnt
    /\ m_break_steps = bs.steps
    /\ m_breakpoints = bs.bps
    /\ verbose_instructions = FALSE
    /\ debugint_last_time = 0
    /\ waiting = "none"
    /\ memory = Load(<< OP_EI, OP_HALT >>)
    /\ reg_if = 0
    /\ reg_ie = \h1f
    /\ stdin = script
    /\ aborted = FALSE
    /\ last = NoStep
    /\ prev = Brief(NoStep)

\* the I/O unit calls push_and_jump(vector)
PushAndJump ==
  /\ last.call = "none"
  /\ \E vector \in PushVectors :
       Becomes([push_and_jump([State EXCEPT !.last =
                                 BeginCall(State, "push_and_jump", vector)],
                              vector)
                  EXCEPT !.last.ret = push_and_jump_ret])
  /\ UNCHANGED prev

\* the host calls reset()
Reset ==
  /\ last.call = "none"
  /\ Becomes(reset([State EXCEPT !.last = BeginCall(State, "reset", 0)]))
  /\ UNCHANGED prev

\* the host calls break_checks()
BreakChecks ==
  /\ last.call = "none"
  /\ Becomes(break_checks([State EXCEPT !.last =
                             BeginCall(State, "break_checks", 0)]))
  /\ UNCHANGED prev

\* a handler or the host calls write_hl(value)
WriteHL ==
  /\ last.call = "none"
  /\ \E value \in {\h00, \hfb, \hff} :
       Becomes(write_hl([State EXCEPT !.last =
                           BeginCall(State, "write_hl", value)], value))
  /\ UNCHANGED prev

OpNext ==
  \/ PushAndJump
  \/ Reset
  \/ BreakChecks
  \/ ConsoleLine
  \/ WriteHL

OpSpec == OpInit /\ [][OpNext]_vars

(* ------------------------------------------------------------------ *)
(* Vocabulary of the properties                                         *)
(* ------------------------------------------------------------------ *)

\* the latest step ran to its end
Completed == last.stepped /\ ~aborted /\ waiting = "none"

\* the documented priority order, highest first
PriorityOrder == << vblank, lcd_stat, timer, serial, joypad >>

PendingIn(mask) ==
  {i \in 1 .. 5 : BitAnd(mask, PriorityOrder[i].mask) # 0}

\* the pending interrupt that comes first in the priority order
Highest(mask) ==
  PriorityOrder[CHOOSE i \in PendingIn(mask) : \A j \in PendingIn(mask) : i <= j]

ByName(n) == CHOOSE i \in Interrupts : i.name = n

\* the lowest set bit among bits 0..4
LowestBit(mask) ==
  CHOOSE b \in {1, 2, 4, 8, 16} :
    /\ BitAnd(mask, b) # 0
    /\ \A c \in {1, 2, 4, 8, 16} : BitAnd(mask, c) # 0 => b <= c

\* the record r is of a step whose handler was EI (resp. DI)
RanEI(r) == r.stepped /\ r.group = "instr_DI_EI" /\ r.opcode = OP_EI

RanDI(r) == r.stepped /\ r.group = "instr_DI_EI" /\ r.opcode = OP_DI

\* what a serviced interrupt leaves behind
ServicedOne ==
  /\ last.serviced = << Highest(last.check.imask).name >>
  /\ ~m_intr_master_enable
  /\ ~m_asleep
  /\ registers.pc = Highest(last.check.imask).fixed_address

(* ------------------------------------------------------------------ *)
(* C1                                                                   *)
(* ------------------------------------------------------------------ *)

\* C1 as stated: a step that starts with ime set and an enabled interrupt
\* pending services exactly one interrupt, the first in priority order, and
\* ends with ime clear, the CPU awake and PC at that interrupt's vector.
C1_Original ==
  (Completed /\ last.pre.ime /\ last.pre.imask # 0) => ServicedOne

\* C1 amended: the same, for a step that does not start with a DI countdown
\* about to expire (ime_pending = -1).
C1_ServicesHighest ==
  (Completed /\ last.pre.ime /\ last.pre.imask # 0 /\ last.pre.pending # -1)
    => ServicedOne

\* timer and joypad pending with ime set: the step took timer
C1_Witness ==
  /\ Completed /\ last.pre.ime /\ last.pre.pending # -1
  /\ last.pre.imask = \h14
  /\ last.serviced = << "timer" >>
  /\ registers.pc = \h50

(* ------------------------------------------------------------------ *)
(* C2                                                                   *)
(* ------------------------------------------------------------------ *)

\* C2: when handle_interrupts finds ime set and imask nonzero it has the I/O
\* unit service exactly one interrupt, the one of the lowest set bit of imask,
\* every other pending bit stays in IF, and the defensive branch (debug break)
\* is never taken.
C2_LowestBitOnly ==
  Completed =>
    /\ ~last.defensive
    /\ (last.check.ime /\ last.check.imask # 0) =>
         /\ Len(last.serviced) = 1
         /\ ByName(last.serviced[1]).mask = LowestBit(last.check.imask)
         /\ BitAnd(reg_if, last.check.imask - LowestBit(last.check.imask))
              = last.check.imask - LowestBit(last.check.imask)

\* LCD STAT, serial and joypad pending: LCD STAT was serviced, the others wait
C2_Witness ==
  /\ Completed /\ last.check.ime
  /\ last.check.imask = \h1a
  /\ last.serviced = << "lcd_stat" >>
  /\ BitAnd(reg_if, \h18) = \h18

(* ------------------------------------------------------------------ *)
(* C3                                                                   *)
(* ------------------------------------------------------------------ *)

\* the step before was EI, run with ime clear and an enabled interrupt pending
AfterDeferredEI == RanEI(prev) /\ ~prev.ime /\ prev.imask # 0

\* the EI step itself services nothing and leaves ime clear
C3_EIStep ==
  (Completed /\ RanEI(last) /\ ~last.pre.ime /\ last.pre.imask # 0)
    => (last.serviced = << >> /\ ~m_intr_master_enable)

\* C3 as stated: after the EI step nothing is serviced and ime is clear; the
\* step after it sets ime and services the interrupt: PC at the vector, SP two
\* lower, the address after the second instruction on the stack, ime clear.
C3_Original ==
  /\ C3_EIStep
  /\ (Completed /\ AfterDeferredEI) =>
       /\ Len(last.serviced) = 1
       /\ registers.pc = ByName(last.serviced[1]).fixed_address
       /\ registers.sp = Wrap16(last.pre.sp + 65534)
       /\ read16(memory, registers.sp) = Wrap16(last.pre.pc + 1)
       /\ ~m_intr_master_enable

\* C3 amended: the same when the following step does not itself execute EI or
\* DI; SP and the pushed address are those the step had reached when its
\* instruction retired, which are the old SP and the address after the second
\* instruction when the step ran it with no console reset.
C3_DeferredEnable ==
  /\ C3_EIStep
  /\ (Completed /\ AfterDeferredEI /\ last.retire.pending = 1) =>
       /\ last.check.ime
       /\ Len(last.serviced) = 1
       /\ registers.pc = ByName(last.serviced[1]).fixed_address
       /\ registers.sp = Wrap16(last.retire.sp + 65534)
       /\ read16(memory, registers.sp) = last.retire.pc
       /\ ~m_intr_master_enable
       /\ (last.group # "none" /\ ~last.reset) =>
            /\ last.retire.pc = Wrap16(last.pre.pc + 1)
            /\ last.retire.sp = last.pre.sp

\* EI at 0, NOP at 1 with VBlank pending: after the NOP step PC = 0x40 and
\* 0x0002 is on the stack
C3_Witness ==
  /\ Completed /\ AfterDeferredEI
  /\ last.group = "instr_NOP" /\ last.pre.pc = 1
  /\ last.serviced = << "vblank" >>
  /\ registers.pc = \h40 /\ registers.sp = \hfffc
  /\ read16(memory, registers.sp) = 2

(* ------------------------------------------------------------------ *)
(* C4                                                                   *)
(* ------------------------------------------------------------------ *)

\* the step started with a countdown running and did not restart it
CountdownExpired == last.pre.pending # 0 /\ last.retire.pending = last.pre.pending

\* C4 as stated: when the countdown of a step that starts with ime_pending # 0
\* reaches zero, ime is the complement of what it was.
C4_Original ==
  (Completed /\ CountdownExpired) => m_intr_master_enable = ~last.pre.ime

\* C4 amended: ime keeps its value while the countdown runs, and when it
\* reaches zero ime takes the requested value (set after EI, clear after DI),
\* whatever it was; a dispatch in the same step leaves ime clear and no
\* countdown.
C4_CountdownSetsRequested ==
  /\ (Completed /\ CountdownExpired) =>
       /\ last.check.ime = (last.pre.pending > 0)
       /\ m_intr_pending = 0
       /\ m_intr_master_enable =
            (IF last.serviced # << >> THEN FALSE ELSE last.pre.pending > 0)
  /\ (Completed /\ last.retire.pending \in {2, -2}) =>
       /\ last.check.ime = last.pre.ime
       /\ IF last.serviced # << >>
            THEN ~m_intr_master_enable /\ m_intr_pending = 0
            ELSE /\ m_intr_master_enable = last.pre.ime
                 /\ m_intr_pending = (IF last.retire.pending > 0 THEN 1 ELSE -1)

\* a countdown started by DI while ime was already clear has expired: ime is
\* still clear, not its complement
C4_Witness ==
  /\ Completed /\ CountdownExpired
  /\ RanDI(prev) /\ ~prev.ime
  /\ last.pre.pending = -1 /\ ~last.pre.ime
  /\ ~m_intr_master_enable /\ m_intr_pending = 0

(* ------------------------------------------------------------------ *)
(* C5                                                                   *)
(* ------------------------------------------------------------------ *)

\* EI and then DI were run in adjacent steps, with no dispatch in either
EIthenDI ==
  /\ Completed
  /\ RanEI(prev) /\ ~prev.dispatched
  /\ RanDI(last) /\ last.serviced = << >>

\* C5: after EI then DI in adjacent instructions ime is what it was before
\* the EI.
C5_EIDICollapse == EIthenDI => m_intr_master_enable = prev.ime

\* the case in which ime was set before the EI
C5_Witness == EIthenDI /\ prev.ime /\ m_intr_master_enable

(* ------------------------------------------------------------------ *)
(* C6                                                                   *)
(* ------------------------------------------------------------------ *)

\* C6: a halted CPU does not stay halted while an enabled interrupt is
\* pending: a step taken asleep with imask nonzero leaves the CPU awake.
C6_WakesWhenPending ==
  (Completed /\ last.pre.asleep /\ last.pre.imask # 0) => ~m_asleep

(* ------------------------------------------------------------------ *)
(* C7                                                                   *)
(* ------------------------------------------------------------------ *)

\* C7 as stated: cycles_total strictly increases in a running step, increases
\* by exactly 4 in a halted step that dispatches nothing, and never decreases.
C7_Original ==
  Completed =>
    /\ ~last.pre.asleep => m_cycles_total > last.pre.cycles
    /\ (last.pre.asleep /\ last.serviced = << >>)
         => m_cycles_total = last.pre.cycles + 4
    /\ m_cycles_total >= last.pre.cycles

\* C7 amended: the same for the steps in which the console executes neither
\* quit nor reset; a step ended by quit adds no instruction time, and only
\* the console's reset command, which restarts the count at 0, lets
\* cycles_total decrease.
C7_CyclesAdvance ==
  Completed =>
    /\ (~last.pre.asleep /\ ~last.quit /\ ~last.reset)
         => m_cycles_total > last.pre.cycles
    /\ (last.pre.asleep /\ last.serviced = << >>)
         => m_cycles_total = last.pre.cycles + 4
    /\ ~last.reset => m_cycles_total >= last.pre.cycles
    /\ (last.quit /\ last.group = "none" /\ last.serviced = << >>)
         => m_cycles_total = last.pre.cycles

\* a quiescent tick: halted, nothing dispatched, four T-states later
C7_Witness ==
  /\ Completed /\ last.pre.asleep /\ last.serviced = << >>
  /\ m_asleep
  /\ m_cycles_total = last.pre.cycles + 4
  /\ prev.group = "instr_HALT"

(* ------------------------------------------------------------------ *)
(* C8                                                                   *)
(* ------------------------------------------------------------------ *)

\* the opcodes the LR35902 does not have
UnusedOps ==
  {\hd3, \hdb, \hdd, \he3, \he4, \heb, \hec, \hed, \hf4, \hfc, \hfd}

\* the first-match table of the specification, section 4.3
TableGroup(op) ==
  IF op = \h00 THEN "instr_NOP"
  ELSE IF op = \h08 THEN "instr_LD_N_SP"
  ELSE IF BitAnd(op, \hc0) = \h40 /\ op # \h76 THEN "instr_LD_D_D"
  ELSE IF op = \h76 THEN "instr_HALT"
  ELSE IF BitAnd(op, \hcf) = \h01 THEN "instr_LD_R_N"
  ELSE IF BitAnd(op, \he7) = \h02 THEN "instr_LD_R_A_R"
  ELSE IF BitAnd(op, \hcf) = \h09 THEN "instr_ADD_HL_R"
  ELSE IF BitAnd(op, \hc7) = \h03 THEN "instr_INC_DEC_R"
  ELSE IF BitAnd(op, \hc6) = \h04 THEN "instr_INC_DEC_D"
  ELSE IF BitAnd(op, \he7) = \h07 THEN "instr_RLC_RRC"
  ELSE IF op = \h10 THEN "instr_STOP"
  ELSE IF op = \h18 \/ BitAnd(op, \he7) = \h20 THEN "instr_JR_N"
  ELSE IF BitAnd(op, \hc7) = \h06 THEN "instr_LD_D_N"
  ELSE IF BitAnd(op, \he7) = \h22 THEN "instr_LDID_HL_A"
  ELSE IF op = \h27 THEN "instr_DAA"
  ELSE IF op = \h2f THEN "instr_CPL"
  ELSE IF BitAnd(op, \hf7) = \h37 THEN "instr_SCF_CCF"
  ELSE IF BitAnd(op, \hc7) = \hc6 \/ BitAnd(op, \hc0) = \h80
    THEN "instr_ALU_A_N_D"
  ELSE IF BitAnd(op, \hcb) = \hc1 THEN "instr_PUSH_POP"
  ELSE IF BitAnd(op, \he7) = \hc0 \/ BitAnd(op, \hef) = \hc9 THEN "instr_RET"
  ELSE IF BitAnd(op, \hc7) = \hc7 THEN "instr_RST"
  ELSE IF op = \hc3 \/ BitAnd(op, \he7) = \hc2 THEN "instr_JP"
  ELSE IF op = \hcd \/ BitAnd(op, \hcd) = \hcd THEN "instr_CALL"
  ELSE IF op = \he8 THEN "instr_ADD_SP_N"
  ELSE IF BitAnd(op, \hef) = \hea THEN "instr_LD_N_A_N"
  ELSE IF BitAnd(op, \hef) = \he0 \/ BitAnd(op, \hef) = \he2
    THEN "instr_LD_xxx_A"
  ELSE IF op = \hf8 THEN "instr_LD_HL_SP"
  ELSE IF BitAnd(op, \hef) = \he9 THEN "instr_LD_JP_HL"
  ELSE IF BitAnd(op, \hf7) = \hf3 THEN "instr_DI_EI"
  ELSE IF op = \hcb THEN "instr_CB_EXT"
  ELSE IF op \in UnusedOps THEN "instr_UNUSED_OPS"
  ELSE "instr_MISSING"

\* an opcode has been decoded
Decoded == last.group # "none"

\* C8: decode returns, for every opcode, the group the table of section 4.3
\* assigns to it.
C8_DecodeMatchesTable == Decoded => last.group = TableGroup(last.opcode)

(* ------------------------------------------------------------------ *)
(* C9                                                                   *)
(* ------------------------------------------------------------------ *)

\* C9: decode returns MISSING only for opcodes the LR35902 does not have.
C9_MissingOnlyForUnused ==
  (Decoded /\ last.group = "instr_MISSING") => last.opcode \in UnusedOps

(* ------------------------------------------------------------------ *)
(* C10                                                                  *)
(* ------------------------------------------------------------------ *)

\* C10: a step that fetches an opcode of the unused set decodes it to the
\* unused no-op group and completes, without aborting, with PC one higher and
\* four T-states added for the instruction.
C10_UnusedIsNoOp ==
  (last.stepped /\ last.fetched /\ last.console = 0
     /\ last.opcode \in UnusedOps) =>
    /\ ~aborted
    /\ last.group = "instr_UNUSED_OPS"
    /\ last.retire.pc = Wrap16(last.pre.pc + 1)
    /\ m_cycles_total >= last.pre.cycles + 4
    /\ last.serviced = << >> => m_cycles_total = last.pre.cycles + 4

(* ------------------------------------------------------------------ *)
(* C11                                                                  *)
(* ------------------------------------------------------------------ *)

Pushed == last.call = "push_and_jump"

\* C11: push_and_jump(vector) lowers SP by 2 modulo 2^16, stores the old PC
\* at the new SP low byte first, sets PC to the vector, returns 8 and leaves
\* the other registers, ime, asleep and cycles_total as they were.
C11_PushAndJump ==
  Pushed =>
    /\ registers.sp = (last.snap.registers.sp + 65534) % 65536
    /\ read8(memory, registers.sp) = last.snap.registers.pc % 256
    /\ read8(memory, registers.sp + 1) = last.snap.registers.pc \div 256
    /\ registers.pc = last.arg
    /\ last.ret = 8
    /\ registers.af = last.snap.registers.af
    /\ registers.bc = last.snap.registers.bc
    /\ registers.de = last.snap.registers.de
    /\ registers.hl = last.snap.registers.hl
    /\ m_intr_master_enable = last.snap.m_intr_master_enable
    /\ m_asleep = last.snap.m_asleep
    /\ m_cycles_total = last.snap.m_cycles_total

\* SP = 0x0000 wraps to 0xFFFE: the low byte of PC = 0x1234 is stored there
\* and the high byte at 0xFFFF
C11_Witness ==
  /\ Pushed
  /\ last.snap.registers.sp = 0 /\ last.snap.registers.pc = \h1234
  /\ registers.sp = \hfffe /\ registers.pc = \h0060
  /\ read8(memory, \hfffe) = \h34 /\ read8(memory, \hffff) = \h12

(* ------------------------------------------------------------------ *)
(* C12                                                                  *)
(* ------------------------------------------------------------------ *)

\* the documented boot state of a CPU without bootstrap ROM
BootRegisters ==
  [af |-> \h01b0, bc |-> \h0013, de |-> \h00d8, hl |-> \h014d,
   sp |-> \hfffe, pc |-> \h0100]

\* C12: from any state reset() yields the Running state with the boot
\* register values (PC = 0x0100) and with asleep, ime, ime_pending, the
\* HALT-bug counter, cycles_total and cur_opcode cleared.
C12_ResetClearsAll ==
  last.call = "reset" =>
    /\ m_running
    /\ registers = BootRegisters
    /\ ~m_asleep
    /\ ~m_intr_master_enable
    /\ m_intr_pending = 0
    /\ m_haltbug = 0
    /\ m_cycles_total = 0
    /\ m_cur_opcode = 0

(* ------------------------------------------------------------------ *)
(* C13                                                                  *)
(* ------------------------------------------------------------------ *)

\* C13: a step in which the console is given quit leaves running false and
\* does nothing more: no handler runs, PC and SP keep their values,
\* cycles_total is unchanged and no interrupt is dispatched.
C13_QuitEndsStep ==
  (last.stepped /\ last.quit) =>
    /\ ~m_running
    /\ last.group = "none"
    /\ registers.pc = last.pre.pc
    /\ registers.sp = last.pre.sp
    /\ m_cycles_total = last.pre.cycles
    /\ last.serviced = << >>

(* ------------------------------------------------------------------ *)
(* C14                                                                  *)
(* ------------------------------------------------------------------ *)

\* the latest step fetched an instruction and made its break check
Fetched == last.stepped /\ last.fetched

\* C14: on each executed step, a set break_now makes the step break and is
\* consumed; otherwise with a period the remaining count goes down by one and
\* the step breaks exactly when it reaches zero, the count being refilled to
\* the period; otherwise the step does not break. Hence after
\* break_on_steps(n), n >= 1, with no break_now since, the step breaks on
\* exactly every n-th instruction.
C14_BreakArming ==
  Fetched =>
    /\ last.broke = last.brk.due
    /\ last.broke => last.console >= 1
    /\ IF last.brk.now
         THEN /\ last.broke
              /\ last.brk.left = last.brk.steps
              /\ (Completed /\ ~last.reset) => ~last.retire.break
         ELSE IF last.brk.cnt # 0
           THEN /\ last.broke = (last.brk.steps - 1 = 0)
                /\ last.brk.left = (IF last.broke THEN last.brk.cnt
                                                  ELSE last.brk.steps - 1)
           ELSE ~last.broke /\ last.brk.left = last.brk.steps
    /\ (last.brk.n >= 1 /\ last.brk.clean) =>
         /\ last.brk.cnt = last.brk.n
         /\ last.broke = (last.brk.count % last.brk.n = 0)

\* after step 2 the first instruction ran through and the second one broke
C14_Witness ==
  /\ Fetched /\ ~aborted
  /\ last.brk.n = 2 /\ last.brk.clean /\ last.brk.count = 2
  /\ last.broke /\ last.console = 1
  /\ prev.stepped /\ prev.group # "none"

(* ------------------------------------------------------------------ *)
(* C15                                                                  *)
(* ------------------------------------------------------------------ *)

\* C15: on a step with no break due and a breakpoint registered at PC the
\* callback is invoked once with the fetched opcode, the breakpoint's
\* break_on_steps is the step period and its verbose_instr the machine's
\* verbose flag from then on, and the instruction is then decoded and run;
\* with the default pausepoint (period 1) the console is entered exactly once
\* in that step; a breakpoint at another PC has no effect.
C15_BreakpointAdopted ==
  (Fetched /\ ~aborted /\ ~last.broke) =>
    /\ last.hit = last.at_bp
    /\ last.hit =>
         /\ last.seen = last.opcode
         /\ last.console = 1
         /\ last.group # "none"
         /\ m_break_steps_cnt = last.bp.break_on_steps
         /\ verbose_instructions = last.bp.verbose_instr
    /\ ~last.hit => last.console = 0

(* ------------------------------------------------------------------ *)
(* C16                                                                  *)
(* ------------------------------------------------------------------ *)

\* the HALT-bug counter as interrupt servicing of the latest step found it
HaltbugAtRetire ==
  IF last.group = "instr_HALT" THEN 2 ELSE last.pre.haltbug

\* HALT sets asleep and the counter to 2
C16_HaltSets ==
  (Completed /\ last.group = "instr_HALT" /\ last.serviced = << >>)
    => (m_asleep /\ m_haltbug = 2)

\* the counter stays in 0..2 and goes down by one, not below 0, at the end of
\* each step that ends awake
C16_CounterRuns ==
  /\ m_haltbug \in {0, 1, 2}
  /\ Completed =>
       m_haltbug = (IF m_asleep \/ HaltbugAtRetire = 0 THEN HaltbugAtRetire
                    ELSE HaltbugAtRetire - 1)

\* an instruction fetched with the counter above 0 runs with PC not advanced
C16_IncrementSuppressed ==
  (Completed /\ last.group # "none" /\ ~last.reset /\ last.pre.haltbug > 0)
    => last.retire.pc = last.pre.pc

\* C16: HALT sets asleep and halt_bug_skip = 2; halt_bug_skip stays in
\* {0,1,2} and is decremented toward zero at the end of each step in which
\* the CPU is not asleep; an instruction fetched while halt_bug_skip > 0 has
\* its PC increment suppressed.
C16_HaltBug == C16_HaltSets /\ C16_CounterRuns /\ C16_IncrementSuppressed

(* ------------------------------------------------------------------ *)
(* C17                                                                  *)
(* ------------------------------------------------------------------ *)

\* C17: a bus failure raised by an access of the debug console (the
\* (HL)/(SP) dump, the read and the write command) never leaves the step:
\* the console answers with a notice and goes on.
C17_BusFailureRecovered ==
  (last.stepped /\ last.busfail > 0) =>
    (~last.thrown /\ ~aborted /\ last.notice)

(* ------------------------------------------------------------------ *)
(* C18                                                                  *)
(* ------------------------------------------------------------------ *)

\* C18: no run, whatever is typed at the console, reaches a failing
\* assertion of break_on_steps (steps >= 0) or incr_cycles (count >= 0).
C18_NoAssertionFails == last.failed = "none"

(* ------------------------------------------------------------------ *)
(* C19                                                                  *)
(* ------------------------------------------------------------------ *)

\* the documented order of the events of a step
StepOrder ==
  << "check", "console", "decode", "pc", "handler", "interrupts" >>

Events(seq) == {seq[i] : i \in 1 .. Len(seq)}

InTrace(e) == e \in Events(last.trace)

\* seq has each of its events once and in the documented order
InStepOrder(seq) == SelectSeq(StepOrder, LAMBDA e : e \in Events(seq)) = seq

\* C19: in every non-halted step the break check, the console (when the
\* step breaks), decode, the PC increment by exactly 1, the handler and
\* interrupt servicing happen in this order; the handler sees the incremented
\* PC, and the IME countdown and the dispatch come after the handler.
C19_StepOrder ==
  (Completed /\ Fetched) =>
    /\ InStepOrder(last.trace)
    /\ last.trace[1] = "check"
    /\ last.trace[Len(last.trace)] = "interrupts"
    /\ InTrace("console") = (last.console > 0)
    /\ IF last.group = "none"
         THEN last.quit /\ ~InTrace("decode") /\ ~InTrace("pc")
                /\ ~InTrace("handler")
         ELSE /\ InTrace("decode") /\ InTrace("pc") /\ InTrace("handler")
              /\ last.hpc = (last.dpc + 1) % 65536
              /\ ~last.reset => last.dpc = last.pre.pc
    /\ (RanEI(last) /\ last.serviced = << >>) =>
         (last.retire.pending = 2 /\ m_intr_pending = 1)
    /\ (RanDI(last) /\ last.serviced = << >>) =>
         (last.retire.pending = -2 /\ m_intr_pending = -1)

\* a step that broke into the console and then ran EI: all six events
C19_Witness ==
  /\ Completed /\ Fetched
  /\ last.trace = StepOrder
  /\ RanEI(last) /\ last.hpc = last.pre.pc + 1
  /\ m_intr_pending = 1

(* ------------------------------------------------------------------ *)
(* C20                                                                  *)
(* ------------------------------------------------------------------ *)

\* the latest step was taken asleep and dispatched no interrupt
QuiescentTick == Completed /\ last.pre.asleep /\ last.serviced = << >>

\* C20: a step taken asleep that dispatches no interrupt fetches nothing and
\* runs no handler, adds exactly 4 to cycles_total and leaves every register,
\* cur_opcode, asleep and the HALT-bug counter as they were; a step taken
\* asleep dispatches exactly when ime is set with an enabled interrupt
\* pending, so the ticks repeat until then.
C20_QuiescentTick ==
  /\ QuiescentTick =>
       /\ ~last.fetched
       /\ last.group = "none" /\ ~InTrace("handler")
       /\ m_cycles_total = last.pre.cycles + 4
       /\ registers = last.pre.registers
       /\ m_cur_opcode = last.pre.opcode
       /\ m_asleep
       /\ m_haltbug = last.pre.haltbug
  /\ (Completed /\ last.pre.asleep) =>
       (last.serviced # << >>) = (last.check.ime /\ last.check.imask # 0)

\* the second tick in a row, asleep with an enabled interrupt pending and
\* ime clear
C20_Witness ==
  /\ QuiescentTick
  /\ prev.stepped /\ prev.group = "none"
  /\ last.pre.imask # 0 /\ ~last.check.ime
  /\ m_asleep /\ m_cur_opcode = OP_HALT /\ m_haltbug = 2
  /\ m_cycles_total = last.pre.cycles + 4

(* ------------------------------------------------------------------ *)
(* C21                                                                  *)
(* ------------------------------------------------------------------ *)

\* the latest step serviced an interrupt
Dispatched == Completed /\ last.serviced # << >>

\* C21: a step that services an interrupt ends with ime clear and no IME
\* toggle pending, also when its own instruction was EI or DI; and between
\* steps ime_pending is -1, 0 or 1.
C21_DispatchClearsToggle ==
  /\ Dispatched => (~m_intr_master_enable /\ m_intr_pending = 0)
  /\ m_intr_pending \in {-1, 0, 1}

\* EI ran with ime already set and an interrupt was serviced in the same
\* step: the countdown EI had started is gone
C21_Witness ==
  /\ Dispatched
  /\ RanEI(last) /\ last.retire.pending = 2
  /\ ~m_intr_master_enable /\ m_intr_pending = 0

(* ------------------------------------------------------------------ *)
(* C22                                                                  *)
(* ------------------------------------------------------------------ *)

\* the keywords that resume, as the command table has them; all others stay
ResumeKeywords ==
  {"continue", "c", "step", "s", "run", "r", "quit", "q", "exit", "reset",
   "empty", ""}

\* the latest step entered the console and the console returned
Session == last.stepped /\ last.console >= 1 /\ ~last.thrown
             /\ last.failed = "none" /\ waiting = "none"

\* the command on which the console was left
LastCmd == last.cmds[Len(last.cmds)]

\* the n of "step n"; a bare "step" is one step (cpu.cpp 302)
StepCount(c) == IF Len(c.params) > 0 THEN c.params[1] ELSE 1

\* C22: the console stays in its loop exactly while commands answer 'remain
\* in break' (break, clear, verbose, read, write, vblank, debug, help, unknown
\* command) and leaves on the first that answers 'resume' (continue, step,
\* run, quit, reset, empty input); on leaving, continue has set the period to
\* 0, step n the period to n and verbose on, run verbose off and the period
\* to 0, quit running to false, reset has reset the machine and armed
\* break_now.
C22_ConsoleLoop ==
  Session =>
    /\ Len(last.cmds) >= 1
    /\ \A i \in 1 .. Len(last.cmds) :
         /\ last.cmds[i].stay = (last.cmds[i].cmd \notin ResumeKeywords)
         /\ last.cmds[i].stay = (i < Len(last.cmds))
    /\ LastCmd.cmd \in {"continue", "c"} => last.left.period = 0
    /\ LastCmd.cmd \in {"step", "s"} =>
         /\ last.left.period = StepCount(LastCmd)
         /\ last.left.remaining = StepCount(LastCmd)
         /\ last.left.verbose
    /\ LastCmd.cmd \in {"run", "r"} =>
         (~last.left.verbose /\ last.left.period = 0)
    /\ LastCmd.cmd \in {"quit", "q", "exit"} => ~last.left.running
    /\ LastCmd.cmd = "reset" =>
         /\ last.left.registers = Constructed.registers
         /\ last.left.cycles = 0
         /\ last.left.break

\* step 2 has turned verbose on; at the next break run turns it off again
C22_Witness ==
  /\ Session
  /\ prev.stepped /\ last.brk.n = 2 /\ last.pre.asleep = FALSE
  /\ Len(last.cmds) = 1 /\ LastCmd.cmd = "run"
  /\ ~verbose_instructions /\ m_break_steps_cnt = 0

(* ------------------------------------------------------------------ *)
(* C23                                                                  *)
(* ------------------------------------------------------------------ *)

\* the latest step decoded and ran an instruction
Ran == Completed /\ Fetched /\ "decode" \in Events(last.trace)

\* C23: in every non-halted step the opcode that is decoded and executed is
\* the byte stored at the PC from which that step advances, also when the
\* console, entered after the fetch, has changed PC (reset) or the memory at
\* PC (write) before the decode.
C23_DecodedIsByteAtPC == Ran => last.decoded = last.atpc

====
